---- MODULE Spec2Model ----
(***************************************************************************)
(* Model of the Zalando scraper: the orchestrator                          *)
(* ZalandoScraperService.scrape_product with its three fetch branches and  *)
(* _merge_responses (specification Spec), the GraphQL client               *)
(* ZalandoAPIScraper._post_graphql / _ensure_cookies as used by the worker *)
(* threads of concurrently served requests (specification SpecApi), and    *)
(* the URL parser, the normalisers and the extractors, each applied to one *)
(* input (specification SpecExtract).                                      *)
(***************************************************************************)
EXTENDS Integers, Sequences, FiniteSets, TLC

VARIABLES
    pc,             \* position of scrape_product
    url,            \* the request's URL argument
    bpc,            \* per branch: position of the task handed to asyncio.gather
    bres,           \* per branch: the task's result slot in gather
    outcome,        \* how scrape_product ended: "none", "returned", "raised"
    response,       \* the ScrapeResponse that was returned
    accessed,       \* per object of the service: the branches that used it
    now,            \* time.time(), in seconds
    last_cookie_refresh, \* ZalandoAPIScraper._last_cookie_refresh
    tpc,            \* per worker thread: position inside _post_graphql
    attempt,        \* per worker thread: loop variable of _post_graphql
    wake,           \* per worker thread: end of its current time.sleep
    fetcher,        \* per worker thread: the ZalandoAPIScraper instance it uses
    answers,        \* the answers to the POSTs of the observed thread's call
    authState,      \* what the observed thread did since its latest 401/403
    result,         \* index of the POST whose body the observed call returned
    fn,             \* the extraction function that was called, "none" before
    arg,            \* its argument
    ret             \* what it returned

orchVars == <<pc, url, bpc, bres, outcome, response, accessed>>
apiVars == <<now, last_cookie_refresh, tpc, attempt, wake, fetcher, answers,
             authState, result>>
unitVars == <<fn, arg, ret>>
vars == <<pc, url, bpc, bres, outcome, response, accessed,
          now, last_cookie_refresh, tpc, attempt, wake, fetcher, answers,
          authState, result, fn, arg, ret>>

----------------------------------------------------------------------------
(* Bounds of the model *)

MaxSku == 2
MaxSimples == 2
MaxModern == 2
NThreads == 2
MaxTime == 600
MaxNote == 3
MaxQty == 4
MaxSizes == 2
MaxBlocks == 2
MaxOffers == 2
MaxLabel == 5
MaxAmount == 100
MaxSegments == 3

(* Python's None, and a key that a dict does not have *)
None == "None"
Absent == "Absent"

SkuNames == <<"SKU1", "SKU2", "SKU3", "SKU4">>
SKUs == {SkuNames[i] : i \in 1..MaxSku}

Branches == {"api", "crawl", "html"}

\* the worker threads of concurrently served requests (asyncio.to_thread)
Threads == 1..NThreads

\* the clock: time.time() at start-up and the instants it is read at
CookieTTL == 300
Retries == 2
Epoch == CookieTTL
TimePoints == {Epoch + d : d \in {0, 1, 299, 300}}

\* the thread whose call is followed POST by POST
Observed == 1

SeqsUpTo(S, n) == UNION {[1..k -> S] : k \in 0..n}

----------------------------------------------------------------------------
(* app/utils/url_parser.py.  A URL is kept by its parts: the scheme before  *)
(* "://", the host as its dot-separated labels, the hyphen-separated        *)
(* segments of the last path component, and that component's extension.    *)

Schemes == {"https", "http", "ftp"}

Hosts == {<<"www", "zalando", "it">>, <<"zalando", "it">>,
          <<"www", "zalando", "co", "uk">>, <<"www", "example", "com">>,
          <<"zalando", "it", "example", "com">>, <<"myzalando", "it">>}

Segments == {"calze", "a9182f001", "A9182F001", "t11", "t_11"}

Extensions == {".html", ".htm"}

URLs == [scheme : Schemes, host : Hosts,
         segments : SeqsUpTo(Segments, MaxSegments), ext : Extensions]

\* the URLs of the requests the service is followed on
RequestURLs ==
    {u \in URLs : /\ u.scheme \in {"https", "ftp"}
                  /\ u.host \in {<<"www", "zalando", "it">>, <<"www", "example", "com">>}
                  /\ u.segments \in {<<"calze", "a9182f001", "t11">>, <<"calze">>}
                  /\ u.ext = ".html"}

\* Python's None for a product code, a code being the pair of its segments
NoCode == <<>>

\* [a-zA-Z0-9]+
Alnum(segment) == segment \in {"calze", "a9182f001", "A9182F001", "t11"}

\* str.upper()
Upper(segment) ==
    IF segment = "calze" THEN "CALZE"
    ELSE IF segment = "a9182f001" THEN "A9182F001"
    ELSE IF segment = "t11" THEN "T11"
    ELSE IF segment = "t_11" THEN "T_11"
    ELSE segment

\* re.search(r'-([a-zA-Z0-9]+-[a-zA-Z0-9]+)\.html$', url): a hyphen, then the
\* last two segments, then the extension, at the end of the URL
code_match(u) ==
    LET n == Len(u.segments)
    IN  IF /\ u.ext = ".html"
           /\ n >= 3
           /\ Alnum(u.segments[n - 1])
           /\ Alnum(u.segments[n])
        THEN <<u.segments[n - 1], u.segments[n]>>
        ELSE NoCode

extract_product_code(u) ==
    IF code_match(u) # NoCode
    THEN <<Upper(code_match(u)[1]), Upper(code_match(u)[2])>>
    ELSE NoCode

\* netloc.replace('www.', ''): no label of Hosts but "www" ends in "www"
without_www(host) ==
    SelectSeq([i \in 1..Len(host) |-> IF host[i] = "www" /\ i < Len(host)
                                      THEN "" ELSE host[i]],
              LAMBDA label : label # "")

extract_domain_info(u) == [domain |-> without_www(u.host), language |-> "en-US"]

\* lines 48-51
ZalandoDomains == {<<"zalando", "de">>, <<"zalando", "it">>, <<"zalando", "fr">>,
                   <<"zalando", "es">>, <<"zalando", "nl">>, <<"zalando", "pl">>,
                   <<"zalando", "co", "uk">>, <<"zalando", "com">>}

\* the strings a label ends with, among the first labels of ZalandoDomains
LabelSuffixes(label) == {label} \cup (IF label = "myzalando" THEN {"zalando"} ELSE {})

\* `zalando_domain in domain`, a test for a substring of the dotted text:
\* the first label of zalando_domain ends a label of domain, the others
\* follow it (no label of Hosts properly begins with a label looked for)
domain_in(zalando_domain, domain) ==
    \E i \in 1..(Len(domain) - Len(zalando_domain) + 1) :
        /\ zalando_domain[1] \in LabelSuffixes(domain[i])
        /\ \A k \in 2..Len(zalando_domain) : domain[i + k - 1] = zalando_domain[k]

is_valid_zalando_url(u) ==
    /\ u.scheme \in {"http", "https"}
    /\ \E zalando_domain \in ZalandoDomains :
          domain_in(zalando_domain, extract_domain_info(u).domain)
    /\ extract_product_code(u) # NoCode

----------------------------------------------------------------------------
(* The payloads of the three branches *)


\* product_data.simples, the structured-source variant list: each entry has
\* its SKU (or none), its own GTIN and its offer's merchant id
GtinNames == <<"G1", "G2", "G3", "G4">>
ApiSimples ==
    {[i \in 1..Len(q) |-> [sku |-> q[i], gtin |-> GtinNames[i], merchant_id |-> "M1"]] :
        q \in SeqsUpTo(SKUs \cup {None}, MaxSimples)}

\* the values a price can take: the number n / 10^e (an integer of minor
\* units has e = 0), None, and the empty string
Dec(n, e) == [kind |-> "num", n |-> n, e |-> e]
NoneVal == [kind |-> "None", n |-> 0, e |-> 0]
Blank == [kind |-> "str", n |-> 0, e |-> 0]

\* a value of the displayPrice dict: a dict with or without the key
\* 'amount', or a plain value
Money(a) == [isdict |-> TRUE, has_amount |-> TRUE, amount |-> a, value |-> NoneVal]
Bare == [isdict |-> TRUE, has_amount |-> FALSE, amount |-> NoneVal, value |-> NoneVal]
Plain(v) == [isdict |-> FALSE, has_amount |-> FALSE, amount |-> NoneVal, value |-> v]

\* product_node['displayPrice'] as the card query answers it: the facets
\* hold integer minor units, the tracking amounts are plain numbers
DisplayPrices ==
    {[original |-> Money(Dec(12990, 0)), promotional |-> Money(Dec(9990, 0)),
      trackingCurrentAmount |-> Plain(Dec(90, 0)),
      trackingDiscountAmount |-> Plain(Dec(10, 0))],
     [original |-> Money(Dec(12990, 0)), promotional |-> Money(NoneVal),
      label |-> Bare]}

\* the product node of the card query with the variant list of the sku query
ProductNodes == [simples : ApiSimples, gtin : {"G0"}, displayPrice : DisplayPrices]

NoProduct == [present |-> FALSE, simples |-> <<>>, gtin |-> None,
              display_price |-> <<>>]

\* one entry of crawl_data['ModernSizes']: key is the SKU it is stored under
ModernEntry == {[key |-> k, size_label |-> i.size_label, availability |-> i.availability] :
                   k \in SKUs,
                   i \in {[size_label |-> "S", availability |-> "InStock"],
                          [size_label |-> "M", availability |-> "OutOfStock"]}}

SkuIndex(k) == CHOOSE n \in 1..MaxSku : SkuNames[n] = k

\* a dict has each key once; the tables are taken in the page's order of sizes
ModernTables == {t \in SeqsUpTo(ModernEntry, MaxModern) :
                    \A i, j \in 1..Len(t) :
                        i < j => SkuIndex(t[i].key) < SkuIndex(t[j].key)}

\* crawl_data: None, or the dict data[0] with the keys it has
CrawlNone == [isNone |-> TRUE, keys |-> {}, ModernSizes |-> <<>>]
CrawlDicts == {[isNone |-> FALSE, keys |-> {}, ModernSizes |-> <<>>],
               [isNone |-> FALSE, keys |-> {"ProductHighlight"}, ModernSizes |-> <<>>]}
              \cup {[isNone |-> FALSE, keys |-> {"ModernSizes"}, ModernSizes |-> t] :
                        t \in ModernTables}

Truthy(crawl) == ~crawl.isNone /\ crawl.keys # {}

\* html_data: (merchant table, stock data) of fetch_html_page_data
MerchantInfo == [merchant : {"Zalando"}, shipper : {"Zalando"}]
MerchantTables == UNION {[D -> MerchantInfo] : D \in SUBSET SKUs}
StockData == [sku : SKUs, stock : {"7"}]
HtmlData == [merchants : MerchantTables, stock : StockData]
NoHtml == [merchants |-> <<>>, stock |-> [sku |-> None, stock |-> None]]

----------------------------------------------------------------------------
(* ZalandoScraperService._fetch_api_data: normalisation of the two API     *)
(* documents.  A document is kept by its shape: "no_data" (falsy or        *)
(* without the key 'data'), "empty_product" (the product document's 'data' *)
(* without a product node), "no_product" (the SKU document's 'data'        *)
(* without the key 'product'), "full".                                     *)

ProdDocs == {"no_data", "empty_product", "full"}
SkuDocs == {"no_data", "no_product", "full"}

NoNode == [simples |-> <<>>, gtin |-> None, displayPrice |-> <<>>]

\* the slot of one task in the list asyncio.gather returns; failed records
\* that the branch hit a failure, whether or not it surfaced as an exception
Pending == [kind |-> "pending", failed |-> FALSE, product |-> NoProduct,
            has_sku |-> FALSE, crawl |-> CrawlNone, html |-> NoHtml,
            node |-> NoNode]
Raised == [kind |-> "exception", failed |-> TRUE, product |-> NoProduct,
           has_sku |-> FALSE, crawl |-> CrawlNone, html |-> NoHtml,
           node |-> NoNode]
\* node is the product node the ProductData p was built from
ApiValue(p, s, n) == [kind |-> "value", failed |-> FALSE, product |-> p,
                      has_sku |-> s, crawl |-> CrawlNone, html |-> NoHtml,
                      node |-> n]
CrawlValue(c, f) == [kind |-> "value", failed |-> f, product |-> NoProduct,
                     has_sku |-> FALSE, crawl |-> c, html |-> NoHtml,
                     node |-> NoNode]
HtmlValue(h) == [kind |-> "value", failed |-> FALSE, product |-> NoProduct,
                 has_sku |-> FALSE, crawl |-> CrawlNone, html |-> h,
                 node |-> NoNode]

\* dict.get(key) on the displayPrice dict
get(dp, key) == IF key \in DOMAIN dp THEN dp[key].value ELSE NoneVal

\* round(num / den, 2) for den > 0, in hundredths: the nearest one, a tie
\* going to the even one
Round2(num, den) ==
    LET q == (100 * num) \div den
        r == (100 * num) % den
    IN  IF 2 * r > den THEN q + 1
        ELSE IF 2 * r < den THEN q
        ELSE IF q % 2 = 0 THEN q ELSE q + 1

\* the discount taken as a share of the current amount
discount_of_current(current_price, discount_amount) ==
    IF current_price.kind # "None" /\ discount_amount.kind # "None"
    THEN IF current_price.n > 0
         THEN Dec(Round2(discount_amount.n, current_price.n), 2)
         ELSE Dec(0, 0)
    ELSE Dec(0, 0)

\* lines 167-174: the value of trackingDiscountPercentage
discount_percentage(current_price, discount_amount) ==
    IF current_price.kind # "None" /\ discount_amount.kind # "None"
    THEN IF current_price.n > 0
         THEN Dec(Round2(discount_amount.n, current_price.n + discount_amount.n), 2)
         ELSE Dec(0, 0)
    ELSE Dec(0, 0)

with_discount_percentage(dp) ==
    [k \in DOMAIN dp \cup {"trackingDiscountPercentage"} |->
        IF k = "trackingDiscountPercentage"
        THEN Plain(discount_percentage(get(dp, "trackingCurrentAmount"),
                                       get(dp, "trackingDiscountAmount")))
        ELSE dp[k]]

\* a loop that divides the amounts a second time
div10000(x) == Dec(x.n, x.e + 4)

\* line 183: price_value['amount'] / 100
div100(x) == Dec(x.n, x.e + 2)

\* lines 178-185: every dict of display_price that has the key 'amount';
\* dividing None raises TypeError, which the loop passes over
divide_amounts(dp) ==
    [k \in DOMAIN dp |->
        IF dp[k].isdict /\ dp[k].has_amount /\ dp[k].amount.kind = "num"
        THEN [dp[k] EXCEPT !.amount = div100(@)]
        ELSE dp[k]]

\* lines 152-185: the ProductData object; present = FALSE stands for None
parsed_product(node) ==
    [present |-> TRUE, simples |-> node.simples, gtin |-> node.gtin,
     display_price |-> divide_amounts(with_discount_percentage(node.displayPrice))]

ProductData == {parsed_product(node) : node \in ProductNodes}

fetch_api_data(prodDoc, skuDoc, product_node) ==
    IF skuDoc = "no_product"
    THEN Raised                                    \* line 134: KeyError
    ELSE IF prodDoc = "no_data"
    THEN ApiValue(NoProduct, skuDoc = "full", NoNode)      \* line 147 false: (None, parsed_sku)
    ELSE IF prodDoc = "empty_product"
    THEN Raised                                    \* line 178 on parsed_product = None
    ELSE IF skuDoc = "no_data"
    THEN Raised                                    \* line 156: sku_node is unbound
    ELSE ApiValue(parsed_product(product_node), TRUE, product_node)

\* a rendered-page extractor that lets the exception of the rendering out
scrape_product_page_raising(how, data) ==
    IF how = "render_error" THEN Raised
    ELSE IF how = "no_content" THEN CrawlValue(CrawlNone, FALSE)
    ELSE CrawlValue(data, FALSE)

\* Crawl4AIScraper.scrape_product_page: every exception is swallowed
scrape_product_page(how, data) ==
    IF how = "render_error" THEN CrawlValue(CrawlNone, TRUE)
    ELSE IF how = "no_content" THEN CrawlValue(CrawlNone, FALSE)
    ELSE CrawlValue(data, FALSE)

\* ZalandoAPIScraper.fetch_product_page_html: the page's markup, or a raise
fetch_product_page_html(how) == how # "fetch_error"

\* extract_merchant_data / extract_stock_data: what the parsing of the markup
\* can fail on (AttributeError on the container, IndexError on the scripts,
\* KeyError on the lookup key)
ParseErrors == {"no_container", "no_script", "key_absent"}

\* a raw-markup branch that answers a failure with None
fetch_html_page_data_swallowing(how, data) ==
    IF ~fetch_product_page_html(how) \/ how \in ParseErrors
    THEN [HtmlValue(NoHtml) EXCEPT !.failed = TRUE]
    ELSE HtmlValue(data)

\* ZalandoScraperService.fetch_html_page_data: a failure comes back as an
\* Exception object, which gather's caller cannot tell from a raised one
fetch_html_page_data(how, data) ==
    IF ~fetch_product_page_html(how) THEN Raised
    ELSE IF how \in ParseErrors THEN Raised
    ELSE HtmlValue(data)

----------------------------------------------------------------------------
(* ZalandoScraperService._merge_responses *)

ModernVariant(e) ==
    [sku |-> Absent, size_label |-> e.size_label, available_Qnty |-> Absent,
     availability |-> e.availability, price |-> Absent, gtin |-> Absent,
     merchant_id |-> Absent, merchant |-> Absent, shipper |-> Absent]

\* lines 255-256: the dict keyed by crawled SKU, in insertion order
sku_to_sizeinfo(crawl) ==
    IF Truthy(crawl) /\ "ModernSizes" \in crawl.keys
    THEN [i \in 1..Len(crawl.ModernSizes) |->
             [key |-> crawl.ModernSizes[i].key,
              info |-> ModernVariant(crawl.ModernSizes[i])]]
    ELSE <<>>

Keys(m) == {m[i].key : i \in 1..Len(m)}

\* the map entry replaced by the API entry's fields instead of updated
update_size_info_replacing(m, simple) ==
    IF simple.sku # None /\ simple.sku \in Keys(m)
    THEN [i \in 1..Len(m) |->
             IF m[i].key = simple.sku
             THEN [m[i] EXCEPT !.info = [@ EXCEPT !.gtin = simple.gtin,
                                                  !.merchant_id = simple.merchant_id,
                                                  !.sku = simple.sku,
                                                  !.size_label = Absent,
                                                  !.availability = Absent]]
             ELSE m[i]]
    ELSE m

\* lines 261-269: size_info.update(...) for one entry of product_data.simples
update_size_info(m, simple) ==
    IF simple.sku # None /\ simple.sku \in Keys(m)
    THEN [i \in 1..Len(m) |->
             IF m[i].key = simple.sku
             THEN [m[i] EXCEPT !.info.gtin = simple.gtin,
                               !.info.merchant_id = simple.merchant_id,
                               !.info.sku = simple.sku]
             ELSE m[i]]
    ELSE m

RECURSIVE enrich(_, _, _)
enrich(m, simples, i) ==
    IF i > Len(simples) THEN m
    ELSE enrich(update_size_info(m, simples[i]), simples, i + 1)

\* the single variant taking its SKU from the first API entry that has one
one_size_from_api(product, html) ==
    [sku |-> IF \E i \in 1..Len(product.simples) : product.simples[i].sku # None
             THEN product.simples[CHOOSE i \in 1..Len(product.simples) :
                                     product.simples[i].sku # None].sku
             ELSE html.stock.sku,
     size_label |-> "One Size",
     available_Qnty |-> html.stock.stock, availability |-> "InStock",
     price |-> IF "trackingCurrentAmount" \in DOMAIN product.display_price
               THEN product.display_price["trackingCurrentAmount"].value
               ELSE Blank,
     gtin |-> product.gtin, merchant_id |-> None,
     merchant |-> Absent, shipper |-> Absent]

\* lines 277-287: the single variant of a one-size product
one_size(product, html) ==
    [sku |-> html.stock.sku, size_label |-> "One Size",
     available_Qnty |-> html.stock.stock, availability |-> "InStock",
     price |-> IF "trackingCurrentAmount" \in DOMAIN product.display_price
               THEN product.display_price["trackingCurrentAmount"].value
               ELSE Blank,
     gtin |-> product.gtin, merchant_id |-> None,
     merchant |-> Absent, shipper |-> Absent]

\* a variant list with one entry per entry of product_data.simples found in
\* the map, instead of one per key of the map
simples_per_api_entry(m, simples) ==
    LET hit == {i \in 1..Len(simples) : simples[i].sku \in Keys(m)}
        F[i \in 0..Len(simples)] ==
            IF i = 0 THEN <<>>
            ELSE IF i \in hit
                 THEN Append(F[i-1], (CHOOSE j \in 1..Len(m) : m[j].key = simples[i].sku))
                 ELSE F[i-1]
    IN  IF hit = {} THEN [i \in 1..Len(m) |-> m[i].info]
        ELSE [k \in 1..Len(F[Len(simples)]) |-> m[F[Len(simples)][k]].info]

\* line 273: list(sku_to_sizeinfo.values())
simples_of_map(m, simples) == [i \in 1..Len(m) |-> m[i].info]

\* lines 272-287: the list that replaces product_data.simples
replace_simples(product, crawl, html) ==
    LET m == enrich(sku_to_sizeinfo(crawl), product.simples, 1)
    IN  IF Len(m) > 0 THEN simples_of_map(m, product.simples)
        ELSE <<one_size(product, html)>>

HasSku(v) == v.sku \notin {None, Absent}

\* lines 322-327: html_merchant_data[sku] raises KeyError on a missing SKU
merchant_lookup_fails(list, crawl, html) ==
    /\ Truthy(crawl)
    /\ DOMAIN html.merchants # {}
    /\ \E i \in 1..Len(list) : HasSku(list[i]) /\ list[i].sku \notin DOMAIN html.merchants

attach_merchants(list, crawl, html) ==
    IF Truthy(crawl) /\ DOMAIN html.merchants # {}
    THEN [i \in 1..Len(list) |->
             IF HasSku(list[i]) /\ list[i].sku \in DOMAIN html.merchants
             THEN [list[i] EXCEPT !.merchant = html.merchants[list[i].sku].merchant,
                                  !.shipper = html.merchants[list[i].sku].shipper]
             ELSE list[i]]
    ELSE list

\* lines 328-334
data_sources(product, crawl) ==
    (IF product.present THEN {"api"} ELSE {})
        \cup (IF Truthy(crawl) THEN {"crawl"} ELSE {})
        \cup {"html"}

NoData == [present |-> FALSE, simples |-> <<>>, display_price |-> <<>>,
           data_sources |-> {}, crawl_data |-> FALSE, sku_data |-> FALSE]

\* _merge_responses: raised = TRUE when the merge ends in an exception
merge_responses(product, has_sku, crawl, html) ==
    IF ~product.present
    THEN [raised |-> TRUE, data |-> NoData]       \* lines 273/283 on product_data = None
    ELSE LET list == replace_simples(product, crawl, html)
         IN  IF merchant_lookup_fails(list, crawl, html)
             THEN [raised |-> TRUE, data |-> NoData]
             ELSE [raised |-> FALSE,
                   data |-> [present |-> TRUE,
                             simples |-> attach_merchants(list, crawl, html),
                             display_price |-> product.display_price,
                             data_sources |-> data_sources(product, crawl),
                             crawl_data |-> Truthy(crawl),
                             sku_data |-> has_sku]]

----------------------------------------------------------------------------
(* ZalandoScraperService.scrape_product *)

\* the objects of the service a branch can reach
Objects == {"api_scraper.session", "api_scraper._last_cookie_refresh",
            "crawl_scraper.schema", "url_parser"}

NoAccess == [o \in Objects |-> [readers |-> {}, writers |-> {}]]

\* what each branch's code reads and writes
uses_fetch_api_data ==
    [reads |-> {"api_scraper.session", "api_scraper._last_cookie_refresh"},
     writes |-> {"api_scraper.session", "api_scraper._last_cookie_refresh"}]

uses_scrape_product_page == [reads |-> {"crawl_scraper.schema"}, writes |-> {}]

uses_fetch_product_page_html == [reads |-> {}, writes |-> {}]

\* fetch_html_page_data going through the API client's cookie refresh
uses_html_with_session ==
    [reads |-> {"url_parser", "api_scraper.session", "api_scraper._last_cookie_refresh"},
     writes |-> {"api_scraper.session", "api_scraper._last_cookie_refresh"}]

uses_fetch_html_page_data ==
    [reads |-> {"url_parser"} \cup uses_fetch_product_page_html.reads,
     writes |-> uses_fetch_product_page_html.writes]

Uses(b) == IF b = "api" THEN uses_fetch_api_data
           ELSE IF b = "crawl" THEN uses_scrape_product_page
           ELSE uses_fetch_html_page_data

Record(acc, b) ==
    [o \in Objects |->
        [readers |-> acc[o].readers \cup (IF o \in Uses(b).reads THEN {b} ELSE {}),
         writers |-> acc[o].writers \cup (IF o \in Uses(b).writes THEN {b} ELSE {})]]

NoResponse == [success |-> FALSE, data |-> NoData, error |-> None]
Failure(msg) == [success |-> FALSE, data |-> NoData, error |-> msg]
Success(d) == [success |-> TRUE, data |-> d, error |-> None]

Init ==
    /\ pc = "idle"
    /\ url \in RequestURLs
    /\ bpc = [b \in Branches |-> "not_created"]
    /\ bres = [b \in Branches |-> Pending]
    /\ outcome = "none"
    /\ response = NoResponse
    /\ accessed = NoAccess
    /\ now = Epoch
    /\ last_cookie_refresh = 0
    /\ tpc = [t \in Threads |-> "idle"]
    /\ attempt = [t \in Threads |-> 0]
    /\ wake = [t \in Threads |-> 0]
    /\ fetcher = [t \in Threads |-> 0]
    /\ answers = <<>>
    /\ authState = "none"
    /\ result = 0
    /\ fn = "none"
    /\ arg = <<>>
    /\ ret = <<>>

\* a scrape_product that creates the three tasks before it looks at the URL
LaunchThenValidate ==
    /\ pc = "idle"
    /\ bpc' = [b \in Branches |-> "scheduled"]
    /\ IF ~is_valid_zalando_url(url)
       THEN /\ pc' = "done"
            /\ outcome' = "returned"
            /\ response' = Failure("Invalid Zalando product URL")
       ELSE /\ pc' = "gather"
            /\ UNCHANGED <<outcome, response>>
    /\ UNCHANGED <<url, bres, accessed>>
    /\ UNCHANGED <<apiVars, unitVars>>

\* lines 27-52: validation, then the three awaitables are handed to gather
Validate ==
    /\ pc = "idle"
    /\ IF ~is_valid_zalando_url(url)
       THEN /\ pc' = "done"
            /\ outcome' = "returned"
            /\ response' = Failure("Invalid Zalando product URL")
            /\ UNCHANGED bpc
       ELSE IF extract_product_code(url) = NoCode
       THEN /\ pc' = "done"
            /\ outcome' = "returned"
            /\ response' = Failure("Could not extract product code from URL")
            /\ UNCHANGED bpc
       ELSE /\ pc' = "gather"
            /\ bpc' = [b \in Branches |-> "scheduled"]
            /\ UNCHANGED <<outcome, response>>
    /\ UNCHANGED <<url, bres, accessed>>
    /\ UNCHANGED <<apiVars, unitVars>>

\* a task settling with an exception, when gather cancels its siblings
settle_cancelling(bp, b, r) ==
    [x \in Branches |->
        IF x = b THEN "settled"
        ELSE IF r.kind = "exception" /\ bp[x] # "settled" THEN "cancelled"
        ELSE bp[x]]

\* asyncio.gather(..., return_exceptions=True): a task's exception is stored
\* in its own slot and the other tasks are left alone
settle(bp, b, r) == [bp EXCEPT ![b] = "settled"]

StartBranch(b) ==
    /\ pc = "gather"
    /\ bpc[b] = "scheduled"
    /\ bpc' = [bpc EXCEPT ![b] = "running"]
    /\ accessed' = Record(accessed, b)
    /\ UNCHANGED <<pc, url, bres, outcome, response>>
    /\ UNCHANGED <<apiVars, unitVars>>

\* _fetch_api_data, line 125: fetch_product_by_id returns or raises
ApiFetchProduct ==
    /\ bpc["api"] = "running"
    /\ \E ok \in BOOLEAN :
          IF ok
          THEN /\ bpc' = [bpc EXCEPT !["api"] = "product_fetched"]
               /\ UNCHANGED bres
          ELSE /\ bpc' = settle(bpc, "api", Raised)
               /\ bres' = [bres EXCEPT !["api"] = Raised]
    /\ UNCHANGED <<pc, url, outcome, response, accessed>>
    /\ UNCHANGED <<apiVars, unitVars>>

\* _fetch_api_data, lines 126-187: fetch_product_sku, then the normalisation
ApiFetchSku ==
    /\ bpc["api"] = "product_fetched"
    /\ \E ok \in BOOLEAN, pd \in ProdDocs, sd \in SkuDocs, node \in ProductNodes :
          LET r == IF ok THEN fetch_api_data(pd, sd, node) ELSE Raised
          IN  /\ bpc' = settle(bpc, "api", r)
              /\ bres' = [bres EXCEPT !["api"] = r]
    /\ UNCHANGED <<pc, url, outcome, response, accessed>>
    /\ UNCHANGED <<apiVars, unitVars>>

CrawlFinish ==
    /\ bpc["crawl"] = "running"
    /\ \E how \in {"render_error", "no_content", "data"}, d \in CrawlDicts :
          LET r == scrape_product_page(how, d)
          IN  /\ bpc' = settle(bpc, "crawl", r)
              /\ bres' = [bres EXCEPT !["crawl"] = r]
    /\ UNCHANGED <<pc, url, outcome, response, accessed>>
    /\ UNCHANGED <<apiVars, unitVars>>

HtmlFinish ==
    /\ bpc["html"] = "running"
    /\ \E how \in {"fetch_error", "data"} \cup ParseErrors, d \in HtmlData :
          LET r == fetch_html_page_data(how, d)
          IN  /\ bpc' = settle(bpc, "html", r)
              /\ bres' = [bres EXCEPT !["html"] = r]
    /\ UNCHANGED <<pc, url, outcome, response, accessed>>
    /\ UNCHANGED <<apiVars, unitVars>>

\* gather resuming its caller as soon as one task has settled
gather_first_done(bp) == \E b \in Branches : bp[b] = "settled"

\* line 54: await asyncio.gather(...) resumes when every task has settled
gather_done(bp) == \A b \in Branches : bp[b] = "settled"

Join ==
    /\ pc = "gather"
    /\ gather_done(bpc)
    /\ pc' = "check"
    /\ UNCHANGED <<url, bpc, bres, outcome, response, accessed>>
    /\ UNCHANGED <<apiVars, unitVars>>

\* the messages of lines 68 and 74: "Crawler error: " and str() of the
\* exception, which for the raw-markup branch is the one of line 198
CrawlerError == "Crawler error: rendering failed"
HtmlError == "Crawler error: Failed to fetch or parse HTML page."

\* lines 58-75: the first captured exception, in the order api, crawl, html
first_error(res) ==
    IF res["api"].kind = "exception" THEN "API scraper error"
    ELSE IF res["crawl"].kind = "exception" THEN CrawlerError
    ELSE IF res["html"].kind = "exception" THEN HtmlError
    ELSE None

HandleExceptions ==
    /\ pc = "check"
    /\ IF first_error(bres) # None
       THEN /\ pc' = "done"
            /\ outcome' = "returned"
            /\ response' = Failure(first_error(bres))
       ELSE /\ pc' = "merge"
            /\ UNCHANGED <<outcome, response>>
    /\ UNCHANGED <<url, bpc, bres, accessed>>
    /\ UNCHANGED <<apiVars, unitVars>>

\* an exception of the merge leaving scrape_product
propagate(m) ==
    IF m.raised THEN [outcome |-> "raised", response |-> NoResponse]
    ELSE [outcome |-> "returned", response |-> Success(m.data)]

\* lines 86-104: the success envelope, or the catch-all handler
finish(m) ==
    IF m.raised THEN [outcome |-> "returned", response |-> Failure("Unexpected error")]
    ELSE [outcome |-> "returned", response |-> Success(m.data)]

\* lines 77-98
Merge ==
    /\ pc = "merge"
    /\ LET m == merge_responses(bres["api"].product, bres["api"].has_sku,
                                bres["crawl"].crawl, bres["html"].html)
       IN  /\ outcome' = finish(m).outcome
           /\ response' = finish(m).response
    /\ pc' = "done"
    /\ UNCHANGED <<url, bpc, bres, accessed>>
    /\ UNCHANGED <<apiVars, unitVars>>

Next ==
    \/ Validate
    \/ \E b \in Branches : StartBranch(b)
    \/ ApiFetchProduct
    \/ ApiFetchSku
    \/ CrawlFinish
    \/ HtmlFinish
    \/ Join
    \/ HandleExceptions
    \/ Merge

Spec == Init /\ [][Next]_vars

----------------------------------------------------------------------------
(* ZalandoAPIScraper._post_graphql and _ensure_cookies, run by the worker  *)
(* threads (asyncio.to_thread) of the requests being served.               *)

\* app/api/v1/endpoints.py: the one module-level ZalandoScraperService
scraper_service == 1

\* ZalandoScraperService.__init__: the service's own ZalandoAPIScraper
api_scraper_of(service) == service

Statuses == {"200", "auth", "other", "neterr"}

\* the worker thread of request t enters _post_graphql
ApiCall(t) ==
    /\ tpc[t] = "idle"
    /\ fetcher' = [fetcher EXCEPT ![t] = api_scraper_of(scraper_service)]
    /\ tpc' = [tpc EXCEPT ![t] = "ensure"]
    /\ UNCHANGED <<now, last_cookie_refresh, attempt, wake, answers, authState, result>>
    /\ UNCHANGED <<orchVars, unitVars>>

\* line 47: the window test of _ensure_cookies
cookies_fresh(t_now, last) == t_now - last < CookieTTL

EnsureCheck(t) ==
    /\ tpc[t] = "ensure"
    /\ tpc' = [tpc EXCEPT ![t] = IF cookies_fresh(now, last_cookie_refresh)
                                 THEN "post" ELSE "get"]
    /\ UNCHANGED <<now, last_cookie_refresh, attempt, wake, fetcher, answers,
                   authState, result>>
    /\ UNCHANGED <<orchVars, unitVars>>

\* lines 90-95: the handler of requests.exceptions.RequestException
on_request_exception(a) == IF a < Retries THEN "sleep" ELSE "failed"

\* the loop variable while the call runs; it is gone once the call has ended
frame(next_pc, a) == IF next_pc \in {"done", "failed"} THEN 0 ELSE a

\* time.sleep(2 ** attempt) when the thread goes to sleep
sleep_until(next_pc, t_now, a) == IF next_pc = "sleep" THEN t_now + 2^a ELSE 0

\* an _ensure_cookies that takes the new timestamp before the request
HomepageGetStampFirst(t) ==
    /\ tpc[t] = "get"
    /\ authState' = IF t = Observed /\ authState = "auth" THEN "refreshed"
                    ELSE authState
    /\ last_cookie_refresh' = now
    /\ \E ok \in BOOLEAN :
          IF ok
          THEN /\ tpc' = [tpc EXCEPT ![t] = "post"]
               /\ UNCHANGED <<wake, attempt>>
          ELSE /\ tpc' = [tpc EXCEPT ![t] = on_request_exception(attempt[t])]
               /\ wake' = [wake EXCEPT ![t] =
                              sleep_until(on_request_exception(attempt[t]), now, attempt[t])]
               /\ attempt' = [attempt EXCEPT ![t] =
                                 frame(on_request_exception(attempt[t]), @)]
    /\ UNCHANGED <<now, fetcher, answers, result>>
    /\ UNCHANGED <<orchVars, unitVars>>

\* lines 50-51: the homepage request, then the new timestamp; the request
\* either returns a response or raises a RequestException
HomepageGet(t) ==
    /\ tpc[t] = "get"
    /\ authState' = IF t = Observed /\ authState = "auth" THEN "refreshed"
                    ELSE authState
    /\ \E ok \in BOOLEAN :
          IF ok
          THEN /\ last_cookie_refresh' = now
               /\ tpc' = [tpc EXCEPT ![t] = "post"]
               /\ UNCHANGED <<wake, attempt>>
          ELSE /\ tpc' = [tpc EXCEPT ![t] = on_request_exception(attempt[t])]
               /\ wake' = [wake EXCEPT ![t] =
                              sleep_until(on_request_exception(attempt[t]), now, attempt[t])]
               /\ attempt' = [attempt EXCEPT ![t] =
                                 frame(on_request_exception(attempt[t]), @)]
               /\ UNCHANGED last_cookie_refresh
    /\ UNCHANGED <<now, fetcher, answers, result>>
    /\ UNCHANGED <<orchVars, unitVars>>

\* a 401/403 that leaves the timestamp as it is
keep_timestamp(last) == last

\* line 84: a 401/403 zeroes the timestamp
on_auth_error(last) == 0

\* a 401/403 retried without using up an attempt
same_attempt(a) == a

\* line 66: the next value of the loop variable
next_attempt(a) == a + 1

\* the loop going on with attempt a, or line 97 when the range is exhausted
loop_or_fail(a) == IF a <= Retries THEN "ensure" ELSE "failed"

\* the observed thread's record of what followed its latest 401/403
auth_after_post(old, st) ==
    IF st = "auth" THEN "auth"
    ELSE IF old \in {"auth", "skipped"} THEN "skipped"
    ELSE "none"

\* lines 75-95: one POST and what its answer leads to
Post(t) ==
    /\ tpc[t] = "post"
    /\ \E st \in Statuses :
          /\ answers' = IF t = Observed THEN Append(answers, st) ELSE answers
          /\ authState' = IF t = Observed THEN auth_after_post(authState, st)
                          ELSE authState
          /\ IF st = "200"
             THEN /\ tpc' = [tpc EXCEPT ![t] = "done"]
                  /\ attempt' = [attempt EXCEPT ![t] = frame("done", @)]
                  /\ result' = IF t = Observed THEN Len(answers) + 1 ELSE result
                  /\ UNCHANGED <<last_cookie_refresh, wake>>
             ELSE IF st = "auth"
             THEN /\ last_cookie_refresh' = on_auth_error(last_cookie_refresh)
                  /\ attempt' = [attempt EXCEPT ![t] =
                                    frame(loop_or_fail(next_attempt(@)), next_attempt(@))]
                  /\ tpc' = [tpc EXCEPT ![t] = loop_or_fail(next_attempt(attempt[t]))]
                  /\ UNCHANGED <<wake, result>>
             ELSE IF st = "other"
             THEN /\ tpc' = [tpc EXCEPT ![t] = "sleep"]
                  /\ wake' = [wake EXCEPT ![t] = sleep_until("sleep", now, attempt[t])]
                  /\ UNCHANGED <<last_cookie_refresh, attempt, result>>
             ELSE /\ tpc' = [tpc EXCEPT ![t] = on_request_exception(attempt[t])]
                  /\ wake' = [wake EXCEPT ![t] =
                                 sleep_until(on_request_exception(attempt[t]), now, attempt[t])]
                  /\ attempt' = [attempt EXCEPT ![t] =
                                    frame(on_request_exception(attempt[t]), @)]
                  /\ UNCHANGED <<last_cookie_refresh, result>>
    /\ UNCHANGED <<now, fetcher>>
    /\ UNCHANGED <<orchVars, unitVars>>

\* lines 88 and 93: time.sleep(2 ** attempt) is over, the loop goes on
Wake(t) ==
    /\ tpc[t] = "sleep"
    /\ now >= wake[t]
    /\ attempt' = [attempt EXCEPT ![t] =
                      frame(loop_or_fail(next_attempt(@)), next_attempt(@))]
    /\ tpc' = [tpc EXCEPT ![t] = loop_or_fail(next_attempt(attempt[t]))]
    /\ wake' = [wake EXCEPT ![t] = 0]
    /\ UNCHANGED <<now, last_cookie_refresh, fetcher, answers, authState, result>>
    /\ UNCHANGED <<orchVars, unitVars>>

Tick ==
    /\ \E n \in TimePoints : n > now /\ n <= MaxTime /\ now' = n
    /\ UNCHANGED <<last_cookie_refresh, tpc, attempt, wake, fetcher, answers,
                   authState, result>>
    /\ UNCHANGED <<orchVars, unitVars>>

NextApi ==
    \/ \E t \in Threads : ApiCall(t)
    \/ \E t \in Threads : EnsureCheck(t)
    \/ \E t \in Threads : HomepageGet(t)
    \/ \E t \in Threads : Post(t)
    \/ \E t \in Threads : Wake(t)
    \/ Tick

InitApi == Init /\ url = [scheme |-> "https", host |-> <<"www", "zalando", "it">>,
                          segments |-> <<"calze", "a9182f001", "t11">>,
                          ext |-> ".html"]

SpecApi == InitApi /\ [][NextApi]_vars

----------------------------------------------------------------------------
(* The texts the extractors classify.  A text is the sequence of its       *)
(* space-separated tokens; a token is a word or a number.                  *)

Word(w) == [w |-> w, n |-> 0]
Num(n) == [w |-> "#", n |-> n]
IsNum(tok) == tok.w = "#"

Words == {"Esaurito", "Articoli", "articoli", "articolo", "disponibili",
          "disponibili:", "disponibile", "pezzi", "Lunga", "distanza"}
Tokens == {Word(w) : w \in Words} \cup {Num(n) : n \in 0..MaxQty}
Notes == SeqsUpTo(Tokens, MaxNote)

\* str.lower() of one word
Lower(w) ==
    CASE w = "Esaurito" -> "esaurito"
      [] w = "Articoli" -> "articoli"
      [] w = "Lunga" -> "lunga"
      [] OTHER -> w

\* str.lower() of a text
lower(txt) == [i \in 1..Len(txt) |-> [txt[i] EXCEPT !.w = Lower(@)]]

\* the strings a word starts with, among those the extractors look for
Prefixes(w) ==
    {w} \cup (IF w \in {"disponibili:", "disponibili"} THEN {"disponibili", "disponibil"}
              ELSE IF w = "disponibile" THEN {"disponibil"}
              ELSE {})

\* `phrase in txt` for a phrase of one to three tokens: its first token ends
\* a token of the text, its last one starts the matching token
EndsWith(tok, p) == IF IsNum(p) THEN IsNum(tok) /\ tok.n % 10 = p.n
                    ELSE tok.w = p.w
StartsWith(tok, p) == ~IsNum(tok) /\ p.w \in Prefixes(tok.w)

contains(txt, phrase) ==
    \E i \in 1..(Len(txt) - Len(phrase) + 1) :
        /\ IF Len(phrase) = 1 THEN StartsWith(txt[i], phrase[1])
           ELSE EndsWith(txt[i], phrase[1])
        /\ \A k \in 2..(Len(phrase) - 1) : txt[i + k - 1] = phrase[k]
        /\ Len(phrase) > 1 => StartsWith(txt[i + Len(phrase) - 1], phrase[Len(phrase)])

\* an optional integer: the group of a regular expression match, or None
Qty(n) == [known |-> TRUE, n |-> n]
NoQty == [known |-> FALSE, n |-> 0]

Least(S) == CHOOSE x \in S : \A y \in S : x <= y

\* re.search(r'(\d+)\s*<word>', txt): the number in front of the leftmost
\* token that starts with the word
number_before(txt, word) ==
    LET at == {i \in 1..(Len(txt) - 1) :
                  IsNum(txt[i]) /\ StartsWith(txt[i + 1], Word(word))}
    IN  IF at = {} THEN NoQty ELSE Qty(txt[Least(at)].n)

\* str(n) for the quantities of the model
Str(n) == <<"0", "1", "2", "3", "4", "5", "6", "7", "8", "9">>[n + 1]

----------------------------------------------------------------------------
(* Crawl4AIScraper._normalize_size_data: the legacy size table *)

\* a value of the key "Size": its text without the surrounding blanks, and
\* whether it has such blanks; NoSize when the dict has no such key
SizeTexts == {[core |-> c, padded |-> b] : c \in {"M", "L", "€ 10", ""}, b \in BOOLEAN}
NoSize == [core |-> Absent, padded |-> FALSE]
strip(size) == size.core

CurrencyPrefixed == {"€ 10"}

\* lines 99-101: re.search(r'(\d+)\s*articoli? disponibili?', text)
quantity_match(txt) ==
    LET at == {i \in 1..(Len(txt) - 2) :
                  /\ IsNum(txt[i])
                  /\ txt[i + 1] = Word("articoli")
                  /\ StartsWith(txt[i + 2], Word("disponibil"))}
    IN  IF at = {} THEN NoQty ELSE Qty(txt[Least(at)].n)

\* lines 91-109: availability and stock quantity of one size (the English
\* phrases of lines 94 and 96 are not among the words of the texts)
classify_availability(text) ==
    LET availability_text == lower(text)
    IN  IF contains(availability_text, <<Word("esaurito")>>)
        THEN [availability |-> "out_of_stock", stock_quantity |-> NoQty]
        ELSE IF contains(availability_text, <<Word("articoli"), Word("disponibili")>>)
        THEN LET m == quantity_match(availability_text)
             IN  [availability |-> IF m.known /\ m.n <= 3 THEN "low_stock" ELSE "in_stock",
                  stock_quantity |-> m]
        ELSE IF contains(availability_text, <<Num(1), Word("articolo"), Word("disponibile")>>)
        THEN [availability |-> "low_stock", stock_quantity |-> Qty(1)]
        ELSE [availability |-> "in_stock", stock_quantity |-> NoQty]

SizeInfo(size_data) ==
    [size |-> strip(size_data.Size), price |-> size_data.Price,
     availability |-> classify_availability(size_data.Availability).availability,
     stock_quantity |-> classify_availability(size_data.Availability).stock_quantity]

\* lines 76-116: the loop over raw_sizes, from entry i on
RECURSIVE normalize_from(_, _, _, _)
normalize_from(raw_sizes, i, seen_sizes, normalized_sizes) ==
    IF i > Len(raw_sizes) THEN normalized_sizes
    ELSE LET size_data == raw_sizes[i]
         IN  IF \/ size_data.Size = NoSize
                \/ (size_data.Size.core = "" /\ ~size_data.Size.padded)
             THEN normalize_from(raw_sizes, i + 1, seen_sizes, normalized_sizes)
             ELSE IF \/ strip(size_data.Size) = ""
                     \/ strip(size_data.Size) \in CurrencyPrefixed
                     \/ strip(size_data.Size) \in seen_sizes
             THEN normalize_from(raw_sizes, i + 1, seen_sizes, normalized_sizes)
             ELSE normalize_from(raw_sizes, i + 1,
                                 seen_sizes \cup {strip(size_data.Size)},
                                 Append(normalized_sizes, SizeInfo(size_data)))

\* a table that keeps every entry with a size, seen before or not
normalize_keeping_duplicates(raw_sizes) ==
    LET sized(size_data) == /\ size_data.Size # NoSize
                            /\ strip(size_data.Size) \notin {""} \cup CurrencyPrefixed
        kept == SelectSeq(raw_sizes, sized)
    IN  [i \in 1..Len(kept) |-> SizeInfo(kept[i])]

normalize_size_data(raw_sizes) == normalize_from(raw_sizes, 1, {}, <<>>)

\* the texts the size lists of more than one entry are built from
SampleNotes == {<<Word("Esaurito")>>, <<Num(2), Word("articoli"), Word("disponibili")>>}

RawSize(size, text) == [Size |-> size, Price |-> "€ 10", Availability |-> text]

RawSizeLists ==
    {<<RawSize([core |-> "M", padded |-> FALSE], text)>> : text \in Notes}
        \cup SeqsUpTo({RawSize(size, text) : size \in SizeTexts \cup {NoSize},
                                              text \in SampleNotes}, MaxSizes)

NormalizeSizeData ==
    /\ fn = "none"
    /\ \E raw_sizes \in RawSizeLists :
          /\ fn' = "_normalize_size_data"
          /\ arg' = raw_sizes
          /\ ret' = normalize_size_data(raw_sizes)
    /\ UNCHANGED <<orchVars, apiVars>>

----------------------------------------------------------------------------
(* ZalandoCrawl4AIScraper.extract_detailed_skus: the per-SKU modern size    *)
(* table.  A block is one size-picker input of the page with the size      *)
(* label and the note that lines 273-315 read from its label markup.       *)

\* lines 320-330: the patterns, tried in this order on the note as it is
parse_qty(note) ==
    LET p1 == number_before(note, "articolo")
        p2 == LET at == {i \in 1..(Len(note) - 2) :
                            /\ note[i] = Word("Articoli")
                            /\ note[i + 1] = Word("disponibili:")
                            /\ IsNum(note[i + 2])}
              IN  IF at = {} THEN NoQty ELSE Qty(note[Least(at) + 2].n)
        p3 == number_before(note, "articoli")
        p4 == number_before(note, "pezzi")
    IN  IF p1.known THEN p1
        ELSE IF p2.known THEN p2
        ELSE IF p3.known THEN p3
        ELSE p4

\* the stock string with the parsed count taking precedence over "0"
qnty_str_count_first(availability, qty, note) ==
    IF qty.known THEN Str(qty.n)
    ELSE IF availability = "OutOfStock" THEN "0"
    ELSE IF contains(note, <<Num(1), Word("articolo"), Word("disponibile")>>) THEN "1"
    ELSE "+2"

\* lines 339-349: available_qnty_str
available_qnty_str(availability, qty, note) ==
    IF availability = "OutOfStock" THEN "0"
    ELSE IF qty.known THEN Str(qty.n)
    ELSE IF contains(note, <<Num(1), Word("articolo"), Word("disponibile")>>) THEN "1"
    ELSE "+2"

\* lines 317-358: the entry of one block
detailed_sku(block) ==
    LET note == block.note
        availability == IF contains(note, <<Word("Esaurito")>>)
                        THEN "OutOfStock" ELSE "InStock"
        qty == parse_qty(note)
        is_long_distance == contains(lower(note), <<Word("lunga"), Word("distanza")>>)
        mentions_stock == \E i \in 1..Len(note) :
                              Lower(note[i].w) \in {"articolo", "articoli", "esaurito"}
    IN  [size_label |-> block.size_label,
         notes |-> IF is_long_distance /\ ~mentions_stock THEN <<>> ELSE note,
         available_Qnty |-> available_qnty_str(availability, qty, note),
         availability |-> availability,
         long_distance |-> IF is_long_distance THEN "true" ELSE "false"]

\* a dict in insertion order: setting a key that is there keeps its place
dict_set(d, key, value) ==
    IF \E i \in 1..Len(d) : d[i].key = key
    THEN [i \in 1..Len(d) |-> IF d[i].key = key THEN [key |-> key, value |-> value]
                              ELSE d[i]]
    ELSE Append(d, [key |-> key, value |-> value])

dict_get(d, key) == d[CHOOSE i \in 1..Len(d) : d[i].key = key].value

dict_keys(d) == {d[i].key : i \in 1..Len(d)}

\* lines 266-360: result[sku] = {...} for every block, from block i on
RECURSIVE detailed_skus_from(_, _, _)
detailed_skus_from(blocks, i, table) ==
    IF i > Len(blocks) THEN table
    ELSE detailed_skus_from(blocks, i + 1,
                            dict_set(table, blocks[i].sku, detailed_sku(blocks[i])))

extract_detailed_skus(blocks) == detailed_skus_from(blocks, 1, <<>>)

Block(sku, note) == [sku |-> sku, size_label |-> "M", note |-> note]

BlockLists ==
    {<<Block(SkuNames[1], note)>> : note \in Notes}
        \cup SeqsUpTo({Block(sku, note) : sku \in SKUs, note \in SampleNotes}, MaxBlocks)

ExtractDetailedSkus ==
    /\ fn = "none"
    /\ \E blocks \in BlockLists :
          /\ fn' = "extract_detailed_skus"
          /\ arg' = blocks
          /\ ret' = extract_detailed_skus(blocks)
    /\ UNCHANGED <<orchVars, apiVars>>

----------------------------------------------------------------------------
(* ZalandoCrawl4AIScraper._enrich_modern_sizes_with_prices *)

\* str(price)
StrOf(x) == [kind |-> IF x.kind = "num" THEN "str(num)" ELSE "str(None)",
             n |-> x.n, e |-> x.e]

\* the offers of the linked-data feed, as extract_json_ld_structured_data
\* lists them: every offer has the keys 'sku' and 'price', either may be None
OfferPrices == {Dec(50, 0), Dec(60, 0), NoneVal}
Offers == [sku : SKUs \cup {None}, price : OfferPrices]
Feeds == SeqsUpTo(Offers, MaxOffers)

truthy(x) == x.kind = "num" /\ x.n # 0

\* lines 368-373: sku_price_lookup, from offer i on
RECURSIVE price_lookup_from(_, _, _)
price_lookup_from(json_ld_skus, i, lookup) ==
    IF i > Len(json_ld_skus) THEN lookup
    ELSE price_lookup_from(json_ld_skus, i + 1,
            IF json_ld_skus[i].sku # None /\ truthy(json_ld_skus[i].price)
            THEN dict_set(lookup, json_ld_skus[i].sku, StrOf(json_ld_skus[i].price))
            ELSE lookup)

has_price(size_info) == "price" \in DOMAIN size_info

with_price(size_info, price) ==
    [k \in DOMAIN size_info \cup {"price"} |-> IF k = "price" THEN price ELSE size_info[k]]

\* the price of an entry chosen without looking at its availability
size_price_any_stock(sku_id, size_info, lookup, json_ld_skus) ==
    IF sku_id \in dict_keys(lookup) THEN dict_get(lookup, sku_id)
    ELSE IF Len(json_ld_skus) > 0 THEN StrOf(json_ld_skus[1].price)
    ELSE Blank

\* lines 377-387: the price one entry is given
size_price(sku_id, size_info, lookup, json_ld_skus) ==
    IF size_info["availability"] = "OutOfStock" THEN Dec(0, 0)
    ELSE IF sku_id \in dict_keys(lookup) THEN dict_get(lookup, sku_id)
    ELSE IF Len(json_ld_skus) > 0 THEN StrOf(json_ld_skus[1].price)
    ELSE Blank

enrich_modern_sizes_with_prices(modern_sizes, json_ld_skus) ==
    LET sku_price_lookup == price_lookup_from(json_ld_skus, 1, <<>>)
    IN  [i \in 1..Len(modern_sizes) |->
            [key |-> modern_sizes[i].key,
             value |-> with_price(modern_sizes[i].value,
                                  size_price(modern_sizes[i].key, modern_sizes[i].value,
                                             sku_price_lookup, json_ld_skus))]]

\* the tables handed to the enrichment: entries of extract_detailed_skus,
\* and entries that carry a price already
SizeEntries ==
    LET e == {detailed_sku(Block(SkuNames[1], note)) : note \in SampleNotes}
    IN  e \cup {with_price(x, StrOf(Dec(40, 0))) : x \in e}

SizeTables ==
    {t \in SeqsUpTo([key : SKUs, value : SizeEntries], MaxModern) :
        \A i, j \in 1..Len(t) : i < j => SkuIndex(t[i].key) < SkuIndex(t[j].key)}

EnrichModernSizes ==
    /\ fn = "none"
    /\ \E modern_sizes \in SizeTables, json_ld_skus \in Feeds :
          /\ fn' = "_enrich_modern_sizes_with_prices"
          /\ arg' = [modern_sizes |-> modern_sizes, json_ld_skus |-> json_ld_skus]
          /\ ret' = enrich_modern_sizes_with_prices(modern_sizes, json_ld_skus)
    /\ UNCHANGED <<orchVars, apiVars>>

----------------------------------------------------------------------------
(* app/utils/html_parser.py: extract_merchant_data, from the simples of the *)
(* cache entry on.  A label is the list of its tokens' texts, a text the   *)
(* sequence of its space-separated words.                                  *)

TextVal(t) == [none |-> FALSE, text |-> t]
NullText == [none |-> TRUE, text |-> <<>>]

LabelTexts == {<<>>, <<"Zalando">>, <<"spedito", "da", "Partner">>}
Labels == SeqsUpTo(LabelTexts, MaxLabel)

\* text.split(" ")[0]
first_word(text) == IF Len(text) = 0 THEN <<>> ELSE <<text[1]>>

\* line 44: text.split(" ")[-1]
last_word(text) == IF Len(text) = 0 THEN <<>> ELSE <<text[Len(text)]>>

\* lines 41-55: merchant_info of one label
merchant_info(merchant_dict) ==
    IF Len(merchant_dict) = 4
    THEN [merchant |-> TextVal(merchant_dict[2]),
          shipper |-> TextVal(last_word(merchant_dict[3]))]
    ELSE IF Len(merchant_dict) = 3 \/ Len(merchant_dict) = 2
    THEN [merchant |-> TextVal(merchant_dict[2]),
          shipper |-> TextVal(merchant_dict[2])]
    ELSE [merchant |-> NullText, shipper |-> NullText]

\* lines 29-57: the table, from simple i on; a simple without SKU or without
\* fulfillment label is passed over
RECURSIVE merchant_data_from(_, _, _)
merchant_data_from(product_simples, i, table) ==
    IF i > Len(product_simples) THEN table
    ELSE merchant_data_from(product_simples, i + 1,
            IF product_simples[i].sku # None /\ product_simples[i].has_label
            THEN dict_set(table, product_simples[i].sku,
                          merchant_info(product_simples[i].label))
            ELSE table)

extract_merchant_data(product_simples) == merchant_data_from(product_simples, 1, <<>>)

Simple(sku, has_label, label) == [sku |-> sku, has_label |-> has_label, label |-> label]

SampleLabels == {<<<<"Venduto">>, <<"Zalando">>>>,
                 <<<<"Venduto">>, <<"Partner">>, <<"spedito", "da", "Zalando">>, <<>>>>}

SimplesLists ==
    {<<Simple(SkuNames[1], TRUE, label)>> : label \in Labels}
        \cup SeqsUpTo({Simple(sku, TRUE, label) : sku \in SKUs \cup {None},
                                                   label \in SampleLabels}
                          \cup {Simple(sku, FALSE, <<>>) : sku \in SKUs}, MaxSimples)

ExtractMerchantData ==
    /\ fn = "none"
    /\ \E product_simples \in SimplesLists :
          /\ fn' = "extract_merchant_data"
          /\ arg' = product_simples
          /\ ret' = extract_merchant_data(product_simples)
    /\ UNCHANGED <<orchVars, apiVars>>

----------------------------------------------------------------------------
(* _fetch_api_data, lines 166-174, on the tracking amounts of a price block *)

TrackingAmounts == {NoneVal} \cup {Dec(n, 0) : n \in 0..MaxAmount}

TrackingDiscountPercentage ==
    /\ fn = "none"
    /\ \E current \in TrackingAmounts \cup {Dec(0 - 1, 0)}, discount \in TrackingAmounts :
          /\ fn' = "trackingDiscountPercentage"
          /\ arg' = [current |-> current, discount |-> discount]
          /\ ret' = with_discount_percentage(
                        [original |-> Money(Dec(12990, 0)),
                         trackingCurrentAmount |-> Plain(current),
                         trackingDiscountAmount |-> Plain(discount)]
                    )["trackingDiscountPercentage"].value
    /\ UNCHANGED <<orchVars, apiVars>>

\* is_valid_zalando_url and extract_product_code on the same URL
IsValidZalandoUrl ==
    /\ fn = "none"
    /\ \E u \in URLs :
          /\ fn' = "is_valid_zalando_url"
          /\ arg' = u
          /\ ret' = [valid |-> is_valid_zalando_url(u), code |-> extract_product_code(u)]
    /\ UNCHANGED <<orchVars, apiVars>>

\* _fetch_api_data on the two documents the client returned
FetchApiData ==
    /\ fn = "none"
    /\ \E pd \in ProdDocs, sd \in SkuDocs, node \in ProductNodes :
          /\ fn' = "_fetch_api_data"
          /\ arg' = [product_data |-> pd, sku_data |-> sd, node |-> node]
          /\ ret' = fetch_api_data(pd, sd, node)
    /\ UNCHANGED <<orchVars, apiVars>>

NextExtract ==
    \/ IsValidZalandoUrl
    \/ FetchApiData
    \/ NormalizeSizeData
    \/ ExtractDetailedSkus
    \/ EnrichModernSizes
    \/ ExtractMerchantData
    \/ TrackingDiscountPercentage

SpecExtract == InitApi /\ [][NextExtract]_vars

----------------------------------------------------------------------------
(* Properties of scrape_product, checked under Spec *)

Returned == pc = "done" /\ outcome = "returned"

\* C1: a product record (success = true with data) is returned only when
\* the structured-source, the rendered-page and the raw-markup branch all
\* succeeded; a failure inside any branch, a swallowed rendering failure
\* included, gives a failure envelope.
C1_RecordOnlyIfAllBranchesSucceeded ==
    (Returned /\ response.success) => \A b \in Branches : ~bres[b].failed

BranchStep(b) ==
    \/ StartBranch(b)
    \/ b = "api" /\ (ApiFetchProduct \/ ApiFetchSku)
    \/ b = "crawl" /\ CrawlFinish
    \/ b = "html" /\ HtmlFinish

\* C2: the three branches are independent: no branch is ever cancelled,
\* a branch that has not settled can always take its next step whatever
\* the other two did, and a settled branch holds its payload or its
\* captured failure.
C2_BranchesIndependent ==
    \A b \in Branches :
        /\ bpc[b] # "cancelled"
        /\ bpc[b] \in {"scheduled", "running", "product_fetched"} => ENABLED BranchStep(b)
        /\ bpc[b] = "settled" <=> bres[b].kind \in {"value", "exception"}

C2_Witness ==
    /\ bpc["api"] = "settled" /\ bres["api"].kind = "exception"
    /\ bpc["crawl"] = "settled" /\ bres["crawl"].kind = "value"
    /\ ~bres["crawl"].crawl.isNone
    /\ bpc["html"] = "settled" /\ bres["html"].kind = "value"

\* C3: _merge_responses starts, and a merged record exists, only after all
\* three branches have settled.
C3_MergeAfterAllSettled ==
    (pc = "merge" \/ (Returned /\ response.success))
        => \A b \in Branches : bpc[b] = "settled" /\ bres[b].kind # "pending"

C3_Witness == pc = "merge" /\ Truthy(bres["crawl"].crawl)

\* C4: scrape_product never raises; what it returns is either a failure
\* with a non-empty error and no data, or a success with data and no error.
C4_AlwaysAnEnvelope ==
    /\ outcome # "raised"
    /\ Returned =>
          IF response.success
          THEN response.data.present /\ response.error = None
          ELSE response.error \notin {None, ""} /\ ~response.data.present

C4_Witness == Returned /\ response.error = "Unexpected error"

C10_UniqueSkus ==
    (Returned /\ response.success) =>
        \A i, j \in 1..Len(response.data.simples) :
            (i # j /\ HasSku(response.data.simples[i]))
                => response.data.simples[i].sku # response.data.simples[j].sku

C10_Witness ==
    /\ Returned /\ response.success
    /\ Len(response.data.simples) = 2
    /\ Len(bres["api"].product.simples) = 2
    /\ bres["api"].product.simples[1].sku = bres["api"].product.simples[2].sku
    /\ \E i \in 1..2 : response.data.simples[i].sku = bres["api"].product.simples[1].sku

\* the inputs and the output of the merge of a request that returned a record
ApiList == bres["api"].product.simples
CrawlData == bres["crawl"].crawl
HtmlResult == bres["html"].html
ModernMap == sku_to_sizeinfo(CrawlData)
Variants == response.data.simples

\* C11: every record _merge_responses returns for an empty modern-size map
\* has a variant list of exactly one entry, labeled "One Size", whose
\* quantity is the raw-markup stock count, whose price is the product's
\* trackingCurrentAmount (the empty string when there is none) and whose SKU
\* is the raw-markup SKU, whatever the structured-source list contained.
C11_OneSizeFallback ==
    (Returned /\ response.success /\ Len(ModernMap) = 0) =>
        /\ Len(Variants) = 1
        /\ Variants[1].size_label = "One Size"
        /\ Variants[1].available_Qnty = HtmlResult.stock.stock
        /\ Variants[1].sku = HtmlResult.stock.sku
        /\ Variants[1].price =
              IF "trackingCurrentAmount" \in DOMAIN bres["api"].node.displayPrice
              THEN bres["api"].node.displayPrice["trackingCurrentAmount"].value
              ELSE Blank

C11_Witness ==
    /\ Returned /\ response.success /\ Len(ModernMap) = 0
    /\ Len(ApiList) = 2
    /\ ApiList[1].sku \notin {None, HtmlResult.stock.sku}
    /\ Variants[1].price = Dec(90, 0)
    /\ Truthy(CrawlData)

\* C12: every record returned for a non-empty modern-size table has one
\* variant per SKU of the table, in the table's order and none besides;
\* each keeps the size label and availability of its table entry; one whose
\* SKU occurs in the structured-source list carries the GTIN and merchant
\* id of an entry with that SKU, and one whose SKU does not has neither.
C12_OneVariantPerModernSku ==
    (Returned /\ response.success /\ Len(ModernMap) > 0) =>
        /\ Len(Variants) = Len(CrawlData.ModernSizes)
        /\ \A i \in 1..Len(Variants) :
              LET e == CrawlData.ModernSizes[i]
                  hits == {j \in 1..Len(ApiList) : ApiList[j].sku = e.key}
              IN  /\ Variants[i].size_label = e.size_label
                  /\ Variants[i].availability = e.availability
                  /\ IF hits # {}
                     THEN /\ Variants[i].sku = e.key
                          /\ \E j \in hits :
                                /\ Variants[i].gtin = ApiList[j].gtin
                                /\ Variants[i].merchant_id = ApiList[j].merchant_id
                     ELSE /\ Variants[i].gtin = Absent
                          /\ Variants[i].merchant_id = Absent

C12_Witness ==
    /\ Returned /\ response.success
    /\ Len(ModernMap) = 2 /\ Len(ApiList) = 2 /\ Len(Variants) = 2
    /\ ApiList[1].sku = CrawlData.ModernSizes[2].key
    /\ ApiList[2].sku = CrawlData.ModernSizes[1].key
    /\ Variants[1].gtin = ApiList[2].gtin
    /\ Variants[2].gtin = ApiList[1].gtin

\* the merge ran: the three results held no exception and a product
Merged ==
    /\ pc = "done" /\ gather_done(bpc) /\ first_error(bres) = None
    /\ bres["api"].product.present

\* C13: the merge completes, and every final variant whose SKU is known has
\* the merchant and shipper of the merchant table's entry for that SKU when
\* there is one, and no merchant or shipper when there is none.
C13_MerchantAttachedWhenAvailable ==
    Merged =>
        /\ response.success
        /\ \A i \in 1..Len(Variants) :
              HasSku(Variants[i]) =>
                  IF Variants[i].sku \in DOMAIN HtmlResult.merchants
                  THEN /\ Variants[i].merchant = HtmlResult.merchants[Variants[i].sku].merchant
                       /\ Variants[i].shipper = HtmlResult.merchants[Variants[i].sku].shipper
                  ELSE /\ Variants[i].merchant = Absent
                       /\ Variants[i].shipper = Absent

\* what a source handed to the merge holds something
Contributed(source) ==
    IF source = "api" THEN bres["api"].product.present
    ELSE IF source = "crawl"
    THEN /\ ~CrawlData.isNone
         /\ \/ "ProductHighlight" \in CrawlData.keys
            \/ Len(CrawlData.ModernSizes) > 0
    ELSE \/ DOMAIN HtmlResult.merchants # {}
         \/ HtmlResult.stock.sku # None
         \/ HtmlResult.stock.stock # None

\* C14: data_sources of a returned record names a source if and only if
\* that source contributed non-empty data to the merge.
C14_SourcesListedIffNonEmpty ==
    (Returned /\ response.success) =>
        \A source \in Branches :
            source \in response.data.data_sources <=> Contributed(source)

\* C15: every facet of displayPrice that is a dict with an integer amount
\* is, in the ProductData of the request, that amount divided by 100 once
\* (12990 becomes 129.90) and every other facet is as it came; the record
\* the merge returns carries the same price block.
C15_DividedExactlyOnce ==
    /\ (bres["api"].kind = "value" /\ bres["api"].product.present) =>
          LET raw == bres["api"].node.displayPrice
              dp == bres["api"].product.display_price
          IN  \A k \in DOMAIN raw :
                  IF raw[k].isdict /\ raw[k].has_amount /\ raw[k].amount.kind = "num"
                  THEN dp[k] = Money(Dec(raw[k].amount.n, raw[k].amount.e + 2))
                  ELSE dp[k] = raw[k]
    /\ (Returned /\ response.success) =>
          response.data.display_price = bres["api"].product.display_price

C15_Witness ==
    /\ Returned /\ response.success
    /\ bres["api"].node.displayPrice["original"].amount = Dec(12990, 0)
    /\ response.data.display_price["original"].amount = Dec(12990, 2)
    /\ response.data.display_price["promotional"].amount = Dec(9990, 2)

\* C23: when the lookup key is absent from the parsed cache, or the
\* container or the script is missing, no exception leaves the raw-markup
\* branch: its slot holds a captured failure, and the orchestrator, seeing
\* it, answers with a failure envelope that names a source as failed.
C23_RawMarkupFailureCaptured ==
    (bpc["html"] = "settled" /\ bres["html"].failed) =>
        /\ bres["html"].kind = "exception"
        /\ pc = "done" => /\ outcome = "returned"
                          /\ ~response.success
                          /\ response.error \in {"API scraper error", HtmlError}

C23_Witness ==
    /\ pc = "done"
    /\ bres["html"].failed
    /\ bres["api"].kind = "value"
    /\ response.error = HtmlError

\* C24: an exception while rendering or parsing makes scrape_product_page
\* return None instead of raising, and the orchestrator goes on as it does
\* for a page without content: no error names the crawler, and a record that
\* is returned has the single "One Size" variant and no "crawl" source.
C24_RenderedPageFailsSoftly ==
    (bpc["crawl"] = "settled" /\ bres["crawl"].failed) =>
        /\ bres["crawl"].kind = "value"
        /\ bres["crawl"].crawl = CrawlNone
        /\ (pc = "done" /\ first_error(bres) = None) =>
              /\ response.error \in {None, "Unexpected error"}
              /\ response.success =>
                    /\ "crawl" \notin response.data.data_sources
                    /\ Len(Variants) = 1
                    /\ Variants[1].size_label = "One Size"

C24_Witness ==
    /\ pc = "done"
    /\ bres["crawl"].failed
    /\ response.success

\* C27: for a URL that the validation rejects or that yields no product
\* code, scrape_product returns a failure envelope and none of the three
\* branches is ever created: no API, rendering or raw-markup request is made.
C27_NoFetchForRejectedUrl ==
    (~is_valid_zalando_url(url) \/ extract_product_code(url) = NoCode) =>
        /\ \A b \in Branches : bpc[b] = "not_created" /\ bres[b] = Pending
        /\ accessed = NoAccess
        /\ pc = "done" =>
              /\ outcome = "returned"
              /\ ~response.success
              /\ response.error \in {"Invalid Zalando product URL",
                                     "Could not extract product code from URL"}

C27_Witness ==
    /\ pc = "done"
    /\ url.scheme = "https"
    /\ url.host = <<"www", "zalando", "it">>
    /\ extract_product_code(url) = NoCode
    /\ response.error = "Invalid Zalando product URL"

\* the error the claim's precedence picks among the branches that failed
ErrorByPrecedence ==
    IF bres["api"].failed THEN "API scraper error"
    ELSE IF bres["crawl"].failed THEN CrawlerError
    ELSE HtmlError

\* C28: when more than one branch failed, scrape_product reports the one
\* error that a fixed precedence picks: the API branch's if that branch
\* failed, else the rendered-page branch's, else the raw-markup branch's,
\* in whatever order the branches completed.
C28_ErrorByFixedPrecedence ==
    (pc = "done" /\ Cardinality({b \in Branches : bres[b].failed}) > 1) =>
        /\ ~response.success
        /\ response.error = ErrorByPrecedence

----------------------------------------------------------------------------
(* Properties of the normalisers and extractors, checked under SpecExtract *)

Abs(x) == IF x < 0 THEN 0 - x ELSE x

\* C16: trackingDiscountPercentage is discount / (current + discount) to the
\* nearest hundredth when both amounts are there and current > 0, and 0
\* when current <= 0 or an amount is missing (90 and 10 give 0.10, 0 and 10
\* give 0).
C16_DiscountPercentage ==
    fn = "trackingDiscountPercentage" =>
        LET c == arg.current
            d == arg.discount
        IN  /\ ret.kind = "num"
            /\ IF c.kind = "num" /\ d.kind = "num" /\ c.n > 0
               THEN /\ ret.e = 2
                    /\ 2 * Abs(100 * d.n - ret.n * (c.n + d.n)) <= c.n + d.n
               ELSE ret.n = 0
            /\ (c = Dec(90, 0) /\ d = Dec(10, 0)) => ret = Dec(10, 2)

C16_Witness ==
    /\ fn = "trackingDiscountPercentage"
    /\ arg.current = Dec(90, 0) /\ arg.discount = Dec(10, 0)
    /\ ret = Dec(10, 2)

\* what C17 says of a note, for the state and the quantity an entry got
ClassifiedAsStated(note, state, quantity) ==
    /\ note = <<Word("Esaurito")>> => state = "out_of_stock"
    /\ \A n \in 0..MaxQty :
          note = <<Num(n), Word("articoli"), Word("disponibili")>> =>
              /\ quantity = Qty(n)
              /\ state = IF n <= 3 THEN "low_stock" ELSE "in_stock"
    /\ note = <<Num(1), Word("articolo"), Word("disponibile")>> =>
          /\ quantity = Qty(1)
          /\ state = "low_stock"
    /\ (\A i \in 1..Len(note) :
            Lower(note[i].w) \notin {"esaurito", "articoli", "articolo", "pezzi"})
          => state = "in_stock"
    /\ (quantity.known /\ quantity.n <= 3) => state # "in_stock"

\* the state and the quantity of a modern entry, in the words of C17
StateOf(entry) == IF entry.availability = "OutOfStock" THEN "out_of_stock" ELSE "in_stock"
QuantityOf(entry) ==
    IF \E n \in 0..9 : Str(n) = entry.available_Qnty
    THEN Qty(CHOOSE n \in 0..9 : Str(n) = entry.available_Qnty)
    ELSE NoQty

\* C17: the entry of a size, in the legacy table and in the modern table, is
\* classified from its note text as stated: "Esaurito" out_of_stock,
\* "N articoli disponibili" quantity N and low_stock for N <= 3, in_stock
\* for N > 3, "1 articolo disponibile" low_stock with quantity 1, no
\* recognized phrase in_stock, and never in_stock with a known quantity <= 3.
C17_AvailabilityClassification ==
    /\ (fn = "_normalize_size_data" /\ Len(arg) = 1 /\ Len(ret) = 1) =>
          ClassifiedAsStated(arg[1].Availability, ret[1].availability,
                             ret[1].stock_quantity)
    /\ (fn = "extract_detailed_skus" /\ Len(arg) = 1) =>
          ClassifiedAsStated(arg[1].note, StateOf(ret[1].value),
                             QuantityOf(ret[1].value))

\* the note of the block an entry of the modern table was built from: the
\* last block with the entry's SKU
NoteOf(blocks, sku) ==
    blocks[CHOOSE i \in 1..Len(blocks) :
              /\ blocks[i].sku = sku
              /\ \A j \in (i + 1)..Len(blocks) : blocks[j].sku # sku].note

SingleItemPhrase == <<Num(1), Word("articolo"), Word("disponibile")>>

\* the stock string of an entry built from a note, with the given sentinel
StockStringIs(note, entry, sentinel) ==
    /\ entry.available_Qnty =
          IF entry.availability = "OutOfStock" THEN "0"
          ELSE IF parse_qty(note).known THEN Str(parse_qty(note).n)
          ELSE IF contains(note, SingleItemPhrase) THEN "1"
          ELSE sentinel
    /\ \A n \in 0..MaxQty :
          note = <<Num(n), Word("articoli"), Word("disponibili")>>
              => entry.available_Qnty = Str(n)
    /\ note = SingleItemPhrase => entry.available_Qnty = "1"
    /\ note \in {<<>>, <<Word("articoli"), Word("disponibili")>>}
          => entry.available_Qnty = sentinel

\* C18 as stated: the stock string of every entry of the modern table is
\* "0" when out of stock, the parsed count when one was parsed, "1" for the
\* single-item phrase, and otherwise ">=2".
C18_StockStringSentinel ==
    fn = "extract_detailed_skus" =>
        \A i \in 1..Len(ret) :
            StockStringIs(NoteOf(arg, ret[i].key), ret[i].value, ">=2")

\* C18 as amended: the same with the sentinel "+2".
C18_StockString ==
    fn = "extract_detailed_skus" =>
        \A i \in 1..Len(ret) :
            StockStringIs(NoteOf(arg, ret[i].key), ret[i].value, "+2")

C18_Witness ==
    /\ fn = "extract_detailed_skus"
    /\ Len(arg) = 2 /\ Len(ret) = 1
    /\ arg[1].note = <<Word("Esaurito")>>
    /\ arg[2].note = <<Num(2), Word("articoli"), Word("disponibili")>>
    /\ ret[1].value.available_Qnty = "2"

\* the offers of the feed under a SKU
OffersOf(feed, sku) == {j \in 1..Len(feed) : feed[j].sku = sku}
Greatest(S) == CHOOSE x \in S : \A y \in S : x >= y

\* C19 as stated: an out-of-stock entry is priced 0; an in-stock entry
\* without price gets the feed price of its own SKU when the SKU is in the
\* feed and otherwise the first offer's price; an in-stock entry that has a
\* price keeps it.
C19_PriceBackfill ==
    fn = "_enrich_modern_sizes_with_prices" =>
        \A i \in 1..Len(ret) :
            LET before == arg.modern_sizes[i].value
                after == ret[i].value
                feed == arg.json_ld_skus
                sku == ret[i].key
            IN  IF before["availability"] = "OutOfStock"
                THEN after["price"] = Dec(0, 0)
                ELSE IF has_price(before)
                THEN after["price"] = before["price"]
                ELSE IF OffersOf(feed, sku) # {}
                THEN \E j \in OffersOf(feed, sku) : after["price"] = StrOf(feed[j].price)
                ELSE Len(feed) > 0 => after["price"] = StrOf(feed[1].price)

\* C19 as amended: the table keeps its SKUs, their order and every field
\* but the price; an out-of-stock entry is priced 0; an in-stock entry,
\* with or without a price of its own, gets the price of the last offer
\* that has its SKU and a non-empty price, otherwise the first offer's
\* price, and the empty string when the feed is empty.
C19_PriceSet ==
    fn = "_enrich_modern_sizes_with_prices" =>
        /\ Len(ret) = Len(arg.modern_sizes)
        /\ \A i \in 1..Len(ret) :
              LET before == arg.modern_sizes[i].value
                  after == ret[i].value
                  feed == arg.json_ld_skus
                  sku == ret[i].key
                  priced == {j \in OffersOf(feed, sku) : feed[j].price.kind = "num"
                                                         /\ feed[j].price.n # 0}
              IN  /\ sku = arg.modern_sizes[i].key
                  /\ \A k \in DOMAIN before : k # "price" => after[k] = before[k]
                  /\ after["price"] =
                        IF before["availability"] = "OutOfStock" THEN Dec(0, 0)
                        ELSE IF priced # {} THEN StrOf(feed[Greatest(priced)].price)
                        ELSE IF Len(feed) > 0 THEN StrOf(feed[1].price)
                        ELSE Blank

C19_Witness ==
    /\ fn = "_enrich_modern_sizes_with_prices"
    /\ Len(ret) = 2 /\ Len(arg.json_ld_skus) = 2
    /\ ret[1].value["availability"] = "OutOfStock" /\ ret[1].value["price"] = Dec(0, 0)
    /\ ret[2].value["availability"] = "InStock"
    /\ ~has_price(arg.modern_sizes[2].value)
    /\ arg.json_ld_skus[1].sku # ret[2].key
    /\ arg.json_ld_skus[2].sku = ret[2].key
    /\ ret[2].value["price"] = StrOf(Dec(60, 0))
    /\ arg.json_ld_skus[1].price = Dec(50, 0)

\* the label of the simple an entry of the merchant table was built from
LabelOf(simples, sku) ==
    simples[CHOOSE i \in 1..Len(simples) :
               /\ simples[i].sku = sku /\ simples[i].has_label
               /\ \A j \in (i + 1)..Len(simples) :
                     ~(simples[j].sku = sku /\ simples[j].has_label)].label

\* C20: every entry of the merchant table follows from the length of its
\* label: 4 tokens give the text of token[1] as merchant and the last word
\* of the text of token[2] as shipper, 2 or 3 tokens give the text of
\* token[1] as both, any other length gives null for both.
C20_MerchantByLabelLength ==
    fn = "extract_merchant_data" =>
        \A i \in 1..Len(ret) :
            LET label == LabelOf(arg, ret[i].key)
                info == ret[i].value
            IN  IF Len(label) = 4
                THEN /\ info.merchant = TextVal(label[2])
                     /\ ~info.shipper.none
                     /\ info.shipper.text =
                           IF label[3] = <<>> THEN <<>>
                           ELSE <<label[3][Len(label[3])]>>
                ELSE IF Len(label) \in {2, 3}
                THEN info.merchant = TextVal(label[2]) /\ info.shipper = TextVal(label[2])
                ELSE info.merchant = NullText /\ info.shipper = NullText

C20_Witness ==
    /\ fn = "extract_merchant_data"
    /\ Len(ret) = 2
    /\ ret[1].value = [merchant |-> TextVal(<<"Partner">>),
                       shipper |-> TextVal(<<"Zalando">>)]
    /\ ret[2].value = [merchant |-> TextVal(<<"Zalando">>),
                       shipper |-> TextVal(<<"Zalando">>)]

\* the host is one of the accepted domains or a subdomain of one
HostAccepted(host) ==
    \E d \in ZalandoDomains :
        /\ Len(host) >= Len(d)
        /\ SubSeq(host, Len(host) - Len(d) + 1, Len(host)) = d

\* the path ends in -xxx-yyy.html with xxx and yyy alphanumeric
EndsInCode(u) ==
    /\ u.ext = ".html"
    /\ Len(u.segments) >= 3
    /\ Alnum(u.segments[Len(u.segments) - 1])
    /\ Alnum(u.segments[Len(u.segments)])

\* the two URLs differ in nothing but the letter case of their segments
SameButCase(u, v) ==
    /\ u.scheme = v.scheme /\ u.host = v.host /\ u.ext = v.ext
    /\ Len(u.segments) = Len(v.segments)
    /\ \A i \in 1..Len(u.segments) : Upper(u.segments[i]) = Upper(v.segments[i])

\* C21: the resolver accepts a URL only if its scheme is http or https, its
\* host belongs to the accepted domain set and its path ends in the code
\* pattern; the code is the last two segments before .html, upper-cased, the
\* same for URLs that differ only in letter case; every other URL is rejected.
C21_ResolverAcceptsOnlyRetailerUrls ==
    fn = "is_valid_zalando_url" =>
        /\ ret.valid => /\ arg.scheme \in {"http", "https"}
                        /\ HostAccepted(arg.host)
                        /\ EndsInCode(arg)
        /\ EndsInCode(arg) =>
              ret.code = <<Upper(arg.segments[Len(arg.segments) - 1]),
                           Upper(arg.segments[Len(arg.segments)])>>
        /\ ~EndsInCode(arg) => ret.code = NoCode
        /\ \A v \in URLs : SameButCase(arg, v) => extract_product_code(v) = ret.code


\* C22: _fetch_api_data ends in a failure whenever a nested key it expects
\* is absent from either API document, and never returns a None product as
\* if the fetch had succeeded.
C22_MalformedResponseFails ==
    fn = "_fetch_api_data" =>
        /\ (arg.product_data # "full" \/ arg.sku_data # "full") => ret.kind = "exception"
        /\ ret.kind = "value" => ret.product.present

\* the entries of a raw size list that have a size, not a price in its
\* place, and no earlier entry with the same size
FirstOccurrences(raw_sizes) ==
    {i \in 1..Len(raw_sizes) :
        /\ raw_sizes[i].Size # NoSize
        /\ raw_sizes[i].Size.core \notin {""} \cup CurrencyPrefixed
        /\ \A k \in 1..(i - 1) : \/ raw_sizes[k].Size = NoSize
                                 \/ raw_sizes[k].Size.core # raw_sizes[i].Size.core}

\* C25: the legacy size table has no two entries with the same size label
\* and no entry whose size starts with a currency symbol; it holds the first
\* occurrence of every other size, in the order of the input.
C25_LegacyTableDeduplicated ==
    fn = "_normalize_size_data" =>
        /\ \A i, j \in 1..Len(ret) : i # j => ret[i].size # ret[j].size
        /\ \A i \in 1..Len(ret) : ret[i].size \notin CurrencyPrefixed
        /\ Len(ret) = Cardinality(FirstOccurrences(arg))
        /\ \A i \in FirstOccurrences(arg) :
              ret[Cardinality({k \in FirstOccurrences(arg) : k <= i})] = SizeInfo(arg[i])

C25_Witness ==
    /\ fn = "_normalize_size_data"
    /\ Len(arg) = 2
    /\ arg[1].Size # NoSize /\ arg[2].Size # NoSize
    /\ arg[1].Size.core = "M" /\ arg[2].Size.core = "M"
    /\ arg[1].Size.padded # arg[2].Size.padded
    /\ arg[1].Availability # arg[2].Availability
    /\ Len(ret) = 1

LongDistancePhrase == <<Word("lunga"), Word("distanza")>>

\* what the claim says of the entry built from a note
FlaggedAsStated(note, entry) ==
    /\ entry.availability = IF contains(note, <<Word("Esaurito")>>)
                            THEN "OutOfStock" ELSE "InStock"
    /\ entry.long_distance = "true" <=> contains(lower(note), LongDistancePhrase)
    /\ entry.notes = IF lower(note) = LongDistancePhrase THEN <<>> ELSE note

\* C26: every modern size entry is OutOfStock exactly when its note contains
\* the out-of-stock phrase and InStock otherwise, has the long-distance flag
\* exactly when the note contains the long-distance phrase, and has its note
\* cleared exactly when the note is nothing but that phrase.
C26_FlagsAndNoteClearing ==
    fn = "extract_detailed_skus" =>
        \A i \in 1..Len(ret) : FlaggedAsStated(NoteOf(arg, ret[i].key), ret[i].value)

----------------------------------------------------------------------------
(* Properties of _post_graphql and _ensure_cookies, checked under SpecApi *)

Active(t) == tpc[t] \in {"ensure", "get", "post", "sleep"}

Alone == \A t \in Threads \ {Observed} : tpc[t] = "idle"

\* C6 as stated, for a call that has the fetcher to itself: after a 401/403
\* on any attempt the call requests the homepage before it issues another
\* POST and before it reports a failure.
C6_AuthAlwaysRefreshedAndRetried ==
    Alone => /\ authState # "skipped"
             /\ tpc[Observed] = "failed" => authState # "auth"

AuthAnswered ==
    /\ tpc[Observed] = "post"
    /\ Len(answers') = Len(answers) + 1
    /\ answers'[Len(answers')] = "auth"

\* C6 as amended: a 401/403 on an attempt before the last zeroes the
\* timestamp and starts the next attempt; an _ensure_cookies that reads the
\* zeroed timestamp requests the homepage whatever the window; the POST
\* follows a homepage request that succeeded; a 401/403 on the last
\* attempt ends the call with a failure.
C6_AuthRefreshWithinRetryBudget ==
    [][/\ (AuthAnswered /\ attempt[Observed] < Retries) =>
              /\ last_cookie_refresh' = 0
              /\ attempt'[Observed] = attempt[Observed] + 1
              /\ tpc'[Observed] = "ensure"
       /\ (AuthAnswered /\ attempt[Observed] = Retries) => tpc'[Observed] = "failed"
       /\ (tpc[Observed] = "ensure" /\ tpc'[Observed] # "ensure" /\ last_cookie_refresh = 0)
              => tpc'[Observed] = "get"
       /\ (tpc[Observed] = "get" /\ tpc'[Observed] = "post")
              => last_cookie_refresh' = now
      ]_vars

C6_Witness ==
    /\ Len(answers) = 2
    /\ answers[1] = "auth"
    /\ answers[2] = "200"
    /\ authState = "none"

\* C7: a homepage request is issued only when the last refresh of the
\* fetcher's cookies is at least 300 s old, whichever thread calls
\* _ensure_cookies.
C7_OneRefreshPerWindow ==
    [][\A t \in Threads :
          (tpc[t] = "get" /\ tpc'[t] # "get") => now - last_cookie_refresh >= CookieTTL
      ]_vars

\* C8: two requests served at the same time never use the same fetcher
\* instance.
C8_OwnFetcherPerRequest ==
    \A t1, t2 \in Threads :
        (t1 # t2 /\ Active(t1) /\ Active(t2)) => fetcher[t1] # fetcher[t2]

====
